---- MODULE Spec2Model ----
(***************************************************************************)
(* A model of stempeg: read_stems (read.py), write_stems, write_audio,     *)
(* build_channel_map and the mapper classes (write.py).                    *)
(*                                                                         *)
(* Python values are encoded as follows.                                   *)
(*   None            the empty tuple <<>>; a present value v is <<v>>      *)
(*   list            a sequence                                            *)
(*   ndarray         a record [shape |-> <<d1,..,dk>>, flat |-> <<..>>]    *)
(*                   holding the elements in C (row-major) order           *)
(*   raise E(...)    a result record whose field raised is the class name  *)
(*                   ("" when the call returns normally)                   *)
(***************************************************************************)
EXTENDS Integers, Sequences, FiniteSets, TLC

\* op, args, ret: the function called, its arguments (with the environment it
\* runs in) and its result, None until it has returned or raised.
\* fmapper, results, frame: a FilesMapper with a worker pool, the AsyncResult
\* objects of its pool, and the position of the thread calling it.
VARIABLES op, args, ret, fmapper, results, frame

vars == <<op, args, ret, fmapper, results, frame>>

poolvars == <<fmapper, results, frame>>

None == <<>>
Some(v) == <<v>>

\* no FilesMapper with a pool exists
NoPool == fmapper = None /\ results = <<>> /\ frame = None

\* ---------------------------------------------------------------- bounds
\* largest number of stems / audio sub-streams drawn
MaxStems == 3

\* the stem names drawn
Names == {"mix", "drums"}

RECURSIVE SeqsOf(_, _)
SeqsOf(S, n) ==
    IF n = 0 THEN {<<>>}
    ELSE LET shorter == SeqsOf(S, n - 1)
         IN  shorter \cup {Append(q, x) : q \in {r \in shorter : Len(r) = n - 1}, x \in S}

\* [f(0), f(1), .., f(n-1)] as a sequence: a comprehension over range(n)
RECURSIVE Flatten(_)
Flatten(ss) == IF ss = <<>> THEN <<>> ELSE Head(ss) \o Flatten(Tail(ss))

\* warnings.warning(...): the warnings module has warn() and no warning(), so
\* evaluating the call raises AttributeError
warnings_warning == "AttributeError"

\* ------------------------------------------------------------ numpy arrays
RECURSIVE Prod(_)
Prod(shape) == IF shape = <<>> THEN 1 ELSE Head(shape) * Prod(Tail(shape))

\* the multi-index (0-based) of the element at C-order offset n
Unravel(n, shape) ==
    [k \in 1..Len(shape) |->
        (n \div Prod(SubSeq(shape, k + 1, Len(shape)))) % shape[k]]

\* the C-order offset of the element at multi-index idx
RECURSIVE RavelFrom(_, _, _, _)
RavelFrom(idx, shape, k, acc) ==
    IF k > Len(shape) THEN acc
    ELSE RavelFrom(idx, shape, k + 1, acc * shape[k] + idx[k])

Ravel(idx, shape) == RavelFrom(idx, shape, 1, 0)

\* a[idx] for a full multi-index
At(a, idx) == a.flat[Ravel(idx, a.shape) + 1]

\* a.transpose(*perm): axis j of the result is axis perm[j] of a
Transpose(a, perm) ==
    LET r == Len(a.shape)
        newshape == [j \in 1..r |-> a.shape[perm[j] + 1]]
        old(m) == [d \in 1..r |-> m[CHOOSE j \in 1..r : perm[j] + 1 = d]]
    IN  [shape |-> newshape,
         flat  |-> [n \in 1..Prod(newshape) |-> At(a, old(Unravel(n - 1, newshape)))]]

\* a.reshape(*newshape) where at most one entry is -1; the element order is kept
ReshapeFits(a, newshape) ==
    LET known == Prod([k \in 1..Len(newshape) |->
                          IF newshape[k] = -1 THEN 1 ELSE newshape[k]])
    IN  IF \E k \in 1..Len(newshape) : newshape[k] = -1
        THEN known # 0 /\ Prod(a.shape) % known = 0
        ELSE known = Prod(a.shape)

Reshape(a, newshape) ==
    LET known == Prod([k \in 1..Len(newshape) |->
                          IF newshape[k] = -1 THEN 1 ELSE newshape[k]])
    IN  [shape |-> [k \in 1..Len(newshape) |->
                       IF newshape[k] = -1 THEN Prod(a.shape) \div known
                       ELSE newshape[k]],
         flat  |-> a.flat]

RECURSIVE DropOnes(_)
DropOnes(shape) ==
    IF shape = <<>> THEN <<>>
    ELSE IF Head(shape) = 1 THEN DropOnes(Tail(shape))
    ELSE <<Head(shape)>> \o DropOnes(Tail(shape))

\* np.squeeze(a): every axis of length 1 is removed
Squeeze(a) == [shape |-> DropOnes(a.shape), flat |-> a.flat]

\* a[..., 0]
LastAxisFirst(a) ==
    LET r == Len(a.shape)
        newshape == SubSeq(a.shape, 1, r - 1)
    IN  [shape |-> newshape,
         flat  |-> [n \in 1..Prod(newshape) |->
                       At(a, Unravel(n - 1, newshape) \o <<0>>)]]

\* a[:n, :] of a 2-d array
HeadRows(a, n) ==
    LET rows == IF n < a.shape[1] THEN n ELSE a.shape[1]
    IN  [shape |-> <<rows, a.shape[2]>>,
         flat  |-> SubSeq(a.flat, 1, rows * a.shape[2])]

\* np.array(list of equally shaped arrays): a new leading axis
Stack(arrays) ==
    [shape |-> <<Len(arrays)>> \o arrays[1].shape,
     flat  |-> Flatten([k \in 1..Len(arrays) |-> arrays[k].flat])]

NDim(a) == Len(a.shape)

\* ------------------------------------------------ write.py: build_channel_map
\* One "[a:0]pan=<layout>| c0=c<i> ...[a<idx>]" branch of the filter graph.
PanBranch(layout, src, idx) ==
    [input |-> "a:0", layout |-> layout, src |-> src, out |-> idx]

\* The argument group of one output sub-stream (write.py 106-118, 140-152).
MapArgs(idx, stem_names) ==
    << <<"-map">>, <<"[a]", idx>>,
       <<"-metadata:s:a:", idx>>, <<"title=", stem_names[idx + 1]>>,
       <<"-metadata:s:a:", idx>>, <<"handler=", stem_names[idx + 1]>>,
       <<"-metadata:s:a:", idx>>, <<"handler_name=", stem_names[idx + 1]>> >>

MonoFilter(nb_stems) ==
    [k \in 1..nb_stems |-> PanBranch("mono", <<k - 1>>, k - 1)]

\* the stereo filter with the stem offset not doubled
StereoFilterNotDoubled(nb_stems) ==
    [k \in 1..nb_stems |-> PanBranch("stereo", <<k - 1, k>>, k - 1)]

StereoFilter(nb_stems) ==
    [k \in 1..nb_stems |-> PanBranch("stereo", <<(k - 1) * 2, (k - 1) * 2 + 1>>, k - 1)]

ChannelMapArgs(graph, nb_stems, stem_names) ==
    << <<"-filter_complex">>, <<"graph", graph>> >>
    \o Flatten([k \in 1..nb_stems |-> MapArgs(k - 1, stem_names)])

\* build_channel_map where every other channel count is taken for stereo
build_channel_map_no_else(nb_stems, nb_channels, stem_names) ==
    IF nb_stems # Len(stem_names)
    THEN [raised |-> "RuntimeError", value |-> <<>>]
    ELSE IF nb_channels = 1
    THEN [raised |-> "", value |-> ChannelMapArgs(MonoFilter(nb_stems), nb_stems, stem_names)]
    ELSE [raised |-> "", value |-> ChannelMapArgs(StereoFilter(nb_stems), nb_stems, stem_names)]

build_channel_map(nb_stems, nb_channels, stem_names) ==
    IF nb_stems # Len(stem_names)
    THEN [raised |-> "RuntimeError", value |-> <<>>]
    ELSE IF nb_channels = 1
    THEN [raised |-> "", value |-> ChannelMapArgs(MonoFilter(nb_stems), nb_stems, stem_names)]
    ELSE IF nb_channels = 2
    THEN [raised |-> "", value |-> ChannelMapArgs(StereoFilter(nb_stems), nb_stems, stem_names)]
    ELSE [raised |-> "NotImplementedError", value |-> <<>>]

\* ---------------------------------------------------- write.py: write_audio
\* largest number of sample frames of a tensor
MaxSamples == 2

\* data.astype('<f4'): the element as a little-endian 32-bit float
AsF4(x) == <<"<f4", x>>

\* data.astype('<f4').tobytes(): the elements in C order
ToBytes(data) == [k \in 1..Len(data.flat) |-> AsF4(data.flat[k])]

\* "if bitrate:" (None and 0 are falsy)
Truthy(bitrate) == bitrate # None /\ bitrate[1] # 0

\* write_audio(path, data, sample_rate, output_sample_rate, codec, bitrate).
\* outcome is what the spawned process does: "ok" (reads everything, exit
\* status 0), "exit" (reads everything, non-zero exit status) or "pipe" (the
\* write to its input pipe fails with IOError).
write_audio(path, data, sample_rate, output_sample_rate, codec, bitrate, outcome) ==
    LET osr   == IF output_sample_rate = None THEN sample_rate ELSE output_sample_rate[1]
        mkdir == [ev |-> "mkdir", path |-> path.parent]
        nb_channels == IF NDim(data) = 1 THEN 1 ELSE data.shape[NDim(data)]
        spawn == [ev |-> "run_async", program |-> "ffmpeg",
                  input |-> [file |-> "pipe:", format |-> "f32le",
                             ar |-> sample_rate, ac |-> nb_channels],
                  output |-> [file |-> path, ar |-> osr, strict |-> "-2",
                              audio_bitrate |-> IF Truthy(bitrate) THEN bitrate ELSE None,
                              codec |-> codec]]
    IN  IF NDim(data) \notin {1, 2}
        THEN [raised |-> "RuntimeError", events |-> <<mkdir>>]
        ELSE IF outcome = "pipe"
        THEN [raised |-> "Warning",
              events |-> <<mkdir, spawn, [ev |-> "stderr.read"]>>]
        ELSE [raised |-> "",
              events |-> <<mkdir, spawn,
                           [ev |-> "stdin.write", buffer |-> ToBytes(data)],
                           [ev |-> "stdin.close"],
                           [ev |-> "wait",
                            status |-> IF outcome = "exit" THEN 1 ELSE 0]>>]

\* ------------------------------------------------------- write.py: mappers
\* the outcome of the k-th process a call spawns: at most one of them fails
Outcome(env, k) == IF env.fail_at = k THEN env.fail_kind ELSE "ok"

\* "Stem " + str(k)
StemLabel(k) ==
    <<"Stem 0", "Stem 1", "Stem 2", "Stem 3", "Stem 4",
      "Stem 5", "Stem 6", "Stem 7", "Stem 8", "Stem 9">>[k + 1]

DefaultStemNames(nb_stems) == [k \in 1..nb_stems |-> StemLabel(k - 1)]

\* (stems, samples, channels) -> (samples, stems * channels), lines 367-370
Interleave(data) == Reshape(Transpose(data, <<1, 0, 2>>), <<data.shape[2], -1>>)

\* "if self.output_sample_rate is None: self.output_sample_rate = sample_rate"
ResolveRate(self, sample_rate) ==
    IF self.output_sample_rate = None
    THEN [self EXCEPT !.output_sample_rate = Some(sample_rate)]
    ELSE self

\* "if self.stem_names is None: self.stem_names = [...]"
ResolveNames(self, nb_stems) ==
    IF self.stem_names = None
    THEN [self EXCEPT !.stem_names = Some(DefaultStemNames(nb_stems))]
    ELSE self

CallResult(raised, events, self) ==
    [raised |-> raised, events |-> events, mapper |-> self]

\* ChannelsMapper.__call__(data, path, sample_rate)
ChannelsMapperCall(self, data, path, sample_rate, env) ==
    LET self1 == ResolveRate(self, sample_rate)
        wa == write_audio(path, Squeeze(Interleave(data)), sample_rate,
                          self1.output_sample_rate, self1.codec, self1.bitrate,
                          Outcome(env, 1))
    IN  CallResult(wa.raised, wa.events, self1)

\* tmp.NamedTemporaryFile(suffix='.wav').name
TempPath == [parent |-> "/tmp", stem |-> "tmpfile", suffix |-> ".wav"]

\* the command of the second transcoder invocation, lines 439-464
MuxCmd(self, channel_map, path) ==
    << <<"ffmpeg">>, <<"-y">>, <<"-acodec">>, <<"pcm_s16le">>,
       <<"-i">>, <<"file", TempPath>> >>
    \o channel_map
    \o << <<"-vn">> >>
    \o (IF self.codec # None THEN << <<"-c:a">>, <<"codec", self.codec[1]>> >> ELSE <<>>)
    \o << <<"-ar">>, <<"rate", self.output_sample_rate[1]>>,
          <<"-strict">>, <<"-2">>, <<"-loglevel">>, <<"error">> >>
    \o (IF self.bitrate # None THEN << <<"-ab">>, <<"bitrate", self.bitrate[1]>> >> ELSE <<>>)
    \o << <<"file", path>> >>

\* StreamsMapper.__call__ with the temporary file closed only at the end of a
\* successful call, without the "with" block and the "finally" clause
StreamsMapperCallNoCleanup(self, data, path, sample_rate, env) ==
    LET nb_stems    == data.shape[1]
        nb_channels == data.shape[3]
        self1 == ResolveNames(ResolveRate(self, sample_rate), nb_stems)
        create == [ev |-> "tempfile.create", path |-> TempPath]
        delete == [ev |-> "tempfile.delete", path |-> TempPath]
        wa == write_audio(TempPath, Interleave(data), sample_rate,
                          self1.output_sample_rate, Some("pcm_s16le"), None,
                          Outcome(env, 1))
        mkdir == [ev |-> "mkdir", path |-> path.parent]
        cm == build_channel_map(nb_stems, nb_channels, self1.stem_names[1])
        call == [ev |-> "check_call", cmd |-> MuxCmd(self1, cm.value, path),
                 status |-> IF Outcome(env, 2) = "ok" THEN 0 ELSE 1]
    IN  IF wa.raised # ""
        THEN CallResult(wa.raised, <<create>> \o wa.events, self1)
        ELSE IF cm.raised # ""
        THEN CallResult(cm.raised, <<create>> \o wa.events \o <<mkdir>>, self1)
        ELSE IF call.status # 0
        THEN CallResult("RuntimeError",
                        <<create>> \o wa.events \o <<mkdir, call>>, self1)
        ELSE CallResult("", <<create>> \o wa.events \o <<mkdir, call, delete>>, self1)

\* StreamsMapper.__call__(data, path, sample_rate)
StreamsMapperCall(self, data, path, sample_rate, env) ==
    LET nb_stems    == data.shape[1]
        nb_channels == data.shape[3]
        self1 == ResolveNames(ResolveRate(self, sample_rate), nb_stems)
        create == [ev |-> "tempfile.create", path |-> TempPath]
        delete == [ev |-> "tempfile.delete", path |-> TempPath]
        wa == write_audio(TempPath, Interleave(data), sample_rate,
                          self1.output_sample_rate, Some("pcm_s16le"), None,
                          Outcome(env, 1))
        mkdir == [ev |-> "mkdir", path |-> path.parent]
        cm == build_channel_map(nb_stems, nb_channels, self1.stem_names[1])
        call == [ev |-> "check_call", cmd |-> MuxCmd(self1, cm.value, path),
                 status |-> IF Outcome(env, 2) = "ok" THEN 0 ELSE 1]
    IN  IF wa.raised # ""
        THEN CallResult(wa.raised, <<create>> \o wa.events \o <<delete>>, self1)
        ELSE IF cm.raised # ""
        THEN CallResult(cm.raised, <<create>> \o wa.events \o <<mkdir, delete>>, self1)
        ELSE IF call.status # 0
        THEN CallResult("RuntimeError",
                        <<create>> \o wa.events \o <<mkdir, call, delete>>, self1)
        ELSE CallResult("", <<create>> \o wa.events \o <<mkdir, call, delete>>, self1)

\* data[idx]
Slice(data, idx) ==
    LET shape == Tail(data.shape)
    IN  [shape |-> shape,
         flat  |-> SubSeq(data.flat, idx * Prod(shape) + 1, (idx + 1) * Prod(shape))]

\* the loop of FilesMapper.__call__ (lines 307-333) without a pool, from idx on
RECURSIVE FilesLoop(_, _, _, _, _, _, _)
FilesLoop(self, data, path, sample_rate, env, idx, events) ==
    IF idx >= data.shape[1]
    THEN CallResult("", events, self)
    ELSE IF idx >= Len(self.stem_names[1])
    THEN CallResult("IndexError", events, self)
    ELSE
    LET stem_filepath == [parent |-> path.parent, stem |-> self.stem_names[1][idx + 1],
                          suffix |-> path.suffix]
        wa == write_audio(stem_filepath, Slice(data, idx), sample_rate,
                          self.output_sample_rate, self.codec, self.bitrate,
                          Outcome(env, idx + 1))
    IN  IF wa.raised # ""
        THEN CallResult(wa.raised, events \o wa.events, self)
        ELSE FilesLoop(self, data, path, sample_rate, env, idx + 1, events \o wa.events)

\* FilesMapper.__call__(data, path, sample_rate) of a mapper made with
\* multiprocess=False
FilesMapperCall(self, data, path, sample_rate, env) ==
    FilesLoop(ResolveNames(ResolveRate(self, sample_rate), data.shape[1]),
              data, path, sample_rate, env, 0, <<>>)

\* mapper(path=path, data=data, sample_rate=sample_rate)
MapperCall(self, data, path, sample_rate, env) ==
    LET r == CASE self.kind = "ChannelsMapper" ->
                    ChannelsMapperCall(self, data, path, sample_rate, env)
               [] self.kind = "StreamsMapper" ->
                    StreamsMapperCall(self, data, path, sample_rate, env)
               [] self.kind = "FilesMapper" ->
                    FilesMapperCall(self, data, path, sample_rate, env)
    IN  CallResult(r.raised,
                   <<[ev |-> "mapper.__call__", kind |-> self.kind, data |-> data,
                      stem_names |-> self.stem_names]>> \o r.events,
                   r.mapper)

\* -------------------------------------------------- write.py: write_stems
\* int(stempeg.ffmpeg_version()[0]): the first character of the version
\* string, the major version of a release below 10
FirstDigit(major) == major

\* the values stacked last to first
StackValuesReversed(values) ==
    Stack([k \in 1..Len(values) |-> values[Len(values) + 1 - k]])

\* np.array(list(data.values())) for values of one shape
StackValues(values) == Stack(values)

\* write_stems(path, data, sample_rate, mapper)
write_stems(path, data, sample_rate, mapper, env) ==
    LET arr == IF data.is_dict THEN StackValues(data.values) ELSE data.array
        mapper1 == IF data.is_dict /\ mapper.kind # "ChannelsMapper"
                   THEN [mapper EXCEPT !.stem_names = Some(data.keys)]
                   ELSE mapper
    IN  IF FirstDigit(env.ffmpeg_major) < 3 /\ warnings_warning # ""
        THEN CallResult(warnings_warning, <<>>, mapper)
        ELSE IF NDim(arr) # 3
        THEN CallResult("RuntimeError", <<>>, mapper1)
        ELSE MapperCall(mapper1, arr, path, sample_rate, env)

\* ---------------------------------------------------- write.py: NIStemsMapper
\* the parameters of write_stems, lines 534-539
WriteStemsParams == {"path", "data", "sample_rate", "mapper"}

\* the arguments NIStemsMapper.__call__ passes to write_stems, lines 207-217
NIStemsKeywords ==
    {"path", "data", "sample_rate", "output_sample_rate", "codec", "bitrate",
     "ffmpeg_params", "stems_as_channels", "stem_names"}

\* the default of the mapper parameter: FilesMapper(stem_names=None)
DefaultMapper ==
    [kind |-> "FilesMapper", codec |-> None, bitrate |-> None,
     output_sample_rate |-> Some(44100), stem_names |-> None]

\* json.load of the example descriptor: its list of stem entries
ExampleMetadata == [stems |-> <<"drums", "bass", "other", "vocals">>]

\* lines 219-259: the descriptor and the call of the container-metadata tool
NIStemsTag(self, path, data, mp4box_status) ==
    LET metadata == IF self.default_metadata # None
                    THEN Some(ExampleMetadata) ELSE self.default_metadata
        nb_stems == data.shape[1]
        stems == IF self.stems_metadata # None THEN self.stems_metadata[1]
                 ELSE IF nb_stems # Len(metadata[1].stems)
                 THEN [i \in 1..nb_stems |-> <<"Stem_", i - 1 + Len(metadata[1].stems)>>]
                 ELSE metadata[1].stems
        call == [ev |-> "check_call",
                 cmd |-> << <<"mp4box">>, <<"file", path>>, <<"-udta">>,
                            <<"0:type=stem:src=base64,", <<"str", <<"b64", stems>> >> >> >>,
                 status |-> mp4box_status]
    IN  IF metadata = None
        THEN [raised |-> "TypeError", events |-> <<>>]
        ELSE [raised |-> IF mp4box_status = 0 THEN "" ELSE "RuntimeError",
              events |-> <<call>>]

\* NIStemsMapper.__call__(path, data, sample_rate), lines 187-259
NIStemsMapperCall(self, path, data, sample_rate, env, mp4box_status) ==
    LET enter == [ev |-> "mapper.__call__", kind |-> "NIStemsMapper", data |-> data,
                  stem_names |-> None]
        log == IF data.shape[2] % 1024 # 0
               THEN <<[ev |-> "logging.warning"]>> ELSE <<>>
    IN  IF NDim(data) # 3 /\ warnings_warning # ""
        THEN CallResult(warnings_warning, <<enter>>, self)
        ELSE IF NDim(data) < 3
        THEN CallResult("IndexError", <<enter>>, self)
        ELSE IF data.shape[3] % 2 # 0 /\ warnings_warning # ""
        THEN CallResult(warnings_warning, <<enter>>, self)
        ELSE IF self.stems_metadata = None
        THEN CallResult("AttributeError", <<enter>> \o log, self)
        ELSE IF ~(NIStemsKeywords \subseteq WriteStemsParams)
        THEN CallResult("TypeError", <<enter>> \o log, self)
        ELSE
        LET w == write_stems(path, [is_dict |-> FALSE, array |-> data,
                                    keys |-> <<>>, values |-> <<>>],
                             sample_rate, DefaultMapper, env)
            t == NIStemsTag(self, path, data, mp4box_status)
        IN  IF w.raised # ""
            THEN CallResult(w.raised, <<enter>> \o log \o w.events, self)
            ELSE CallResult(t.raised, <<enter>> \o log \o w.events \o t.events, self)

\* ----------------------------------------------------- calls of write_stems
\* a tensor whose element at a multi-index is named by that multi-index
Tensor(shape) == [shape |-> shape,
                  flat  |-> [n \in 1..Prod(shape) |-> Unravel(n - 1, shape)]]

NameList(n) == SubSeq(<<"mix", "drums", "bass", "other", "vocals", "fx">>, 1, n)

DictKeys(n) == SubSeq(<<"vocals", "other", "bass", "drums", "mix", "fx">>, 1, n)

\* the channel counts per stem drawn
TensorChannels == {1, 2, 3}

\* the tensor shapes drawn: 3-dimensional ones, and one each of 1, 2 and 4
\* dimensions
Shapes ==
    {<<n, s, c>> : n \in 1..MaxStems, s \in 1..MaxSamples, c \in TensorChannels}
    \cup {<<2>>, <<2, 2>>, <<1, 2, 2, 1>>}

\* data as passed by the caller: an array, or a dict of equally shaped arrays
ArrayArg(shape) ==
    [is_dict |-> FALSE, array |-> Tensor(shape), keys |-> <<>>, values |-> <<>>]

DictArg(shape) ==
    [is_dict |-> TRUE, array |-> Tensor(<<0>>), keys |-> DictKeys(shape[1]),
     values |-> [k \in 1..shape[1] |-> Slice(Tensor(shape), k - 1)]]

Mappers ==
    [kind : {"ChannelsMapper", "StreamsMapper", "FilesMapper"},
     codec : {None}, bitrate : {None},
     output_sample_rate : {None, Some(22050)},
     stem_names : {None} \cup {Some(NameList(n)) : n \in 0..MaxStems}]
    \cup
    [kind : {"ChannelsMapper", "StreamsMapper", "FilesMapper"},
     codec : {Some("aac")}, bitrate : {Some(256000)},
     output_sample_rate : {None},
     stem_names : {None} \cup {Some(NameList(n)) : n \in {MaxStems - 1, MaxStems}}]

Envs ==
    [ffmpeg_major : {2, 4}, fail_at : {0}, fail_kind : {"ok"}]
    \cup [ffmpeg_major : {4}, fail_at : 1..MaxStems, fail_kind : {"exit", "pipe"}]

\* a ChannelsMapper has no stem_names attribute
ValidMapper(m) == m.kind = "ChannelsMapper" => m.stem_names = None

InitWrite ==
    /\ op = "write_stems"
    /\ NoPool
    /\ \E shape \in Shapes, is_dict \in BOOLEAN, m \in Mappers, env \in Envs :
          /\ ValidMapper(m)
          /\ args = [path |-> [parent |-> "out", stem |-> "track", suffix |-> ".mp4"],
                     data |-> IF is_dict THEN DictArg(shape) ELSE ArrayArg(shape),
                     shape |-> shape,
                     sample_rate |-> 44100,
                     mapper |-> m,
                     env |-> env]
    /\ ret = None

CallWriteStems ==
    /\ op = "write_stems"
    /\ ret = None
    /\ ret' = Some(write_stems(args.path, args.data, args.sample_rate,
                               args.mapper, args.env))
    /\ UNCHANGED <<op, args, poolvars>>

\* direct calls of a NIStemsMapper
NIStemsMappers ==
    [kind : {"NIStemsMapper"}, bitrate : {Some(256000)},
     codec : {Some("aac"), Some("libfdk_aac")},
     default_metadata : {None, Some("custom")},
     stems_metadata : {None} \cup {Some(NameList(n)) : n \in 1..MaxStems}]

InitNIStems ==
    /\ op = "NIStemsMapper"
    /\ NoPool
    /\ \E shape \in Shapes, m \in NIStemsMappers, status \in {0, 1} :
          args = [path |-> [parent |-> "out", stem |-> "track", suffix |-> ".stem.mp4"],
                  data |-> Tensor(shape),
                  shape |-> shape,
                  sample_rate |-> 44100,
                  mapper |-> m,
                  env |-> [ffmpeg_major |-> 4, fail_at |-> 0, fail_kind |-> "ok"],
                  mp4box_status |-> status]
    /\ ret = None

CallNIStems ==
    /\ op = "NIStemsMapper"
    /\ ret = None
    /\ ret' = Some(NIStemsMapperCall(args.mapper, args.path, args.data,
                                     args.sample_rate, args.env, args.mp4box_status))
    /\ UNCHANGED <<op, args, poolvars>>

\* direct calls of write_audio: data of 1, 2 or 3 dimensions
AudioShapes ==
    {<<s>> : s \in 1..MaxSamples}
    \cup {<<s, c>> : s \in 1..MaxSamples, c \in TensorChannels}
    \cup {<<1, 2, 2>>}

InitWriteAudio ==
    /\ op = "write_audio"
    /\ NoPool
    /\ args \in [path : {[parent |-> "out", stem |-> "track", suffix |-> ".wav"]},
                 data : {Tensor(shape) : shape \in AudioShapes},
                 sample_rate : {44100},
                 output_sample_rate : {None, Some(22050)},
                 codec : {None, Some("aac")},
                 bitrate : {None, Some(0), Some(256000)},
                 outcome : {"ok", "exit", "pipe"}]
    /\ ret = None

CallWriteAudio ==
    /\ op = "write_audio"
    /\ ret = None
    /\ ret' = Some(write_audio(args.path, args.data, args.sample_rate,
                               args.output_sample_rate, args.codec, args.bitrate,
                               args.outcome))
    /\ UNCHANGED <<op, args, poolvars>>

NextWrite == CallWriteStems \/ CallWriteAudio \/ CallNIStems

SpecWrite == (InitWrite \/ InitWriteAudio \/ InitNIStems) /\ [][NextWrite]_vars

\* ------------------------------------- write.py: FilesMapper with a pool
\* largest number of calls made on one mapper
MaxCalls == 2
\* largest number of stems of a tensor written through the pool
MaxPoolStems == 2

\* self._tasks.pop(): the last element is taken
Last(q) == q[Len(q)]
Front(q) == SubSeq(q, 1, Len(q) - 1)

\* waiting with task.wait() alone, which raises nothing
GetNeverRaises(state) == FALSE

\* task.get() re-raises the exception of a failed encode task
GetRaises(state) == state = "failed"

Idle == [pc |-> "idle", entry |-> "", idx |-> 0, nb_stems |-> 0,
         cur |-> None, dispatched |-> <<>>]

Outcome2(raised, f, failed) ==
    Some([raised |-> raised, entry |-> f.entry, nb_stems |-> f.nb_stems,
          dispatched |-> f.dispatched, failed |-> failed])

\* FilesMapper(stem_names=..., output_sample_rate=..., synchronous=...) with
\* multiprocess=True: self._pool = Pool(), self._tasks = []
InitPool ==
    /\ op = "FilesMapper"
    /\ args = [calls |-> 0, path |-> [parent |-> "out", stem |-> "*", suffix |-> ".wav"],
               sample_rate |-> 44100]
    /\ ret = None
    /\ fmapper \in [kind : {"FilesMapper"}, codec : {None}, bitrate : {None},
                    output_sample_rate : {None, Some(44100)},
                    stem_names : {None, Some(NameList(1)), Some(NameList(MaxPoolStems))},
                    synchronous : BOOLEAN,
                    tasks : {<<>>}]
    /\ results = <<>>
    /\ frame = Idle

\* the AsyncResult objects still referenced by self._tasks
Referenced == [t \in {fmapper.tasks[k] : k \in 1..Len(fmapper.tasks)} |-> results[t]]

\* mapper(data, path, sample_rate) is entered: lines 299-305
Call(n) ==
    /\ op = "FilesMapper"
    /\ frame.pc = "idle"
    /\ args.calls < MaxCalls
    /\ args' = [args EXCEPT !.calls = @ + 1]
    /\ ret' = None
    /\ fmapper' = ResolveNames(ResolveRate(fmapper, args.sample_rate), n)
    /\ results' = Referenced
    /\ frame' = [Idle EXCEPT !.pc = "dispatch", !.entry = "call", !.nb_stems = n]
    /\ UNCHANGED op

\* one iteration of the loop of lines 307-324: apply_async and append
Dispatch ==
    /\ op = "FilesMapper"
    /\ frame.pc = "dispatch"
    /\ frame.idx < frame.nb_stems
    /\ IF frame.idx >= Len(fmapper.stem_names[1])
       THEN /\ ret' = Outcome2("IndexError", frame, None)
            /\ frame' = Idle
            /\ UNCHANGED <<fmapper, results>>
       ELSE LET task == <<args.calls, frame.idx>>
            IN  /\ results' = (task :> "pending") @@ results
                /\ fmapper' = [fmapper EXCEPT !.tasks = Append(@, task)]
                /\ frame' = [frame EXCEPT !.idx = @ + 1,
                                          !.dispatched = Append(@, task)]
                /\ ret' = ret
    /\ UNCHANGED <<op, args>>

\* lines 334-335: the loop is over
EndLoop ==
    /\ op = "FilesMapper"
    /\ frame.pc = "dispatch"
    /\ frame.idx = frame.nb_stems
    /\ IF fmapper.synchronous
       THEN frame' = [frame EXCEPT !.pc = "join"] /\ ret' = ret
       ELSE frame' = Idle /\ ret' = Outcome2("", frame, None)
    /\ UNCHANGED <<op, args, fmapper, results>>

\* mapper.join() called by the user
JoinCall ==
    /\ op = "FilesMapper"
    /\ frame.pc = "idle"
    /\ fmapper.tasks # <<>>
    /\ ret' = None
    /\ frame' = [Idle EXCEPT !.pc = "join", !.entry = "join"]
    /\ UNCHANGED <<op, args, fmapper, results>>

\* lines 287-288: the loop test of join and self._tasks.pop()
JoinTest ==
    /\ op = "FilesMapper"
    /\ frame.pc = "join"
    /\ IF Len(fmapper.tasks) > 0
       THEN /\ frame' = [frame EXCEPT !.pc = "get", !.cur = Some(Last(fmapper.tasks))]
            /\ fmapper' = [fmapper EXCEPT !.tasks = Front(@)]
            /\ ret' = ret
       ELSE /\ frame' = Idle
            /\ ret' = Outcome2("", frame, None)
            /\ UNCHANGED fmapper
    /\ UNCHANGED <<op, args, results>>

\* line 289: task.get() returns once the task has finished, or re-raises
Get ==
    /\ op = "FilesMapper"
    /\ frame.pc = "get"
    /\ results[frame.cur[1]] # "pending"
    /\ IF GetRaises(results[frame.cur[1]])
       THEN /\ frame' = Idle
            /\ ret' = Outcome2("Warning", frame, frame.cur)
       ELSE /\ frame' = [frame EXCEPT !.pc = "wait"]
            /\ ret' = ret
    /\ UNCHANGED <<op, args, fmapper, results>>

\* line 290: task.wait(timeout) of a finished task returns at once
Wait ==
    /\ op = "FilesMapper"
    /\ frame.pc = "wait"
    /\ frame' = [frame EXCEPT !.pc = "join", !.cur = None]
    /\ UNCHANGED <<op, args, ret, fmapper, results>>

\* a worker of the pool finishes write_audio for task t: it returned, or raised
Finish(t, outcome) ==
    /\ op = "FilesMapper"
    /\ results[t] = "pending"
    /\ results' = [results EXCEPT ![t] = outcome]
    /\ UNCHANGED <<op, args, ret, fmapper, frame>>

NextPool ==
    \/ \E n \in 1..MaxPoolStems : Call(n)
    \/ Dispatch
    \/ EndLoop
    \/ JoinCall
    \/ JoinTest
    \/ Get
    \/ Wait
    \/ \E t \in DOMAIN results, outcome \in {"ok", "failed"} : Finish(t, outcome)

SpecPool == InitPool /\ [][NextPool]_vars

\* the calling thread keeps running: each of its steps is taken when it stays
\* possible. A worker need not ever finish its task.
CallerFairness ==
    /\ WF_vars(Dispatch) /\ WF_vars(EndLoop)
    /\ WF_vars(JoinTest) /\ WF_vars(Get) /\ WF_vars(Wait)

SpecPoolLive == SpecPool /\ CallerFairness

\* every worker finishes the task it was given
WorkerFairness == \A t \in (1..MaxCalls) \X (0..MaxPoolStems) :
                      WF_vars(t \in DOMAIN results
                              /\ (Finish(t, "ok") \/ Finish(t, "failed")))

SpecPoolWorkersFinish == SpecPoolLive /\ WorkerFairness

\* ------------------------------ write.py: several calls with one mapper
\* the mappers a sequence of calls shares: the default of write_stems'
\* mapper parameter, made once when the module is loaded (line 538), and
\* instances the caller makes without stem names and output sample rate, or
\* with both
SharedMappers ==
    {[mapper |-> DefaultMapper, names |-> FALSE, rate |-> FALSE]}
    \cup {[mapper |-> [kind |-> k, codec |-> None, bitrate |-> None,
                       output_sample_rate |-> None, stem_names |-> None],
           names |-> FALSE, rate |-> FALSE]
          : k \in {"FilesMapper", "StreamsMapper", "ChannelsMapper"}}
    \cup {[mapper |-> [kind |-> k, codec |-> None, bitrate |-> None,
                       output_sample_rate |-> Some(22050),
                       stem_names |-> Some(NameList(MaxPoolStems))],
           names |-> TRUE, rate |-> TRUE]
          : k \in {"FilesMapper", "StreamsMapper"}}

\* the input sample rates of the calls
CallRates == {22050, 44100, 48000}

InitReuse ==
    /\ op = "write_stems*"
    /\ \E m \in SharedMappers :
          /\ args = [configured |-> m, calls |-> 0, shape |-> <<>>, sample_rate |-> 0]
          /\ fmapper = m.mapper
    /\ results = <<>>
    /\ frame = None
    /\ ret = None

\* one more write_stems(path, data, sample_rate, mapper=<the shared mapper>):
\* the mapper object keeps the attributes its __call__ assigned
WriteAgain ==
    /\ op = "write_stems*"
    /\ args.calls < MaxCalls
    /\ \E n \in 1..MaxPoolStems, rate \in CallRates :
          LET shape == <<n, 1, 2>>
              r == write_stems([parent |-> "out", stem |-> "track", suffix |-> ".mp4"],
                               ArrayArg(shape), rate, fmapper,
                               [ffmpeg_major |-> 4, fail_at |-> 0, fail_kind |-> "ok"])
          IN  /\ ret' = Some(r)
              /\ fmapper' = r.mapper
              /\ args' = [args EXCEPT !.calls = @ + 1, !.shape = shape,
                                      !.sample_rate = rate]
    /\ UNCHANGED <<op, results, frame>>

NextReuse == WriteAgain

SpecReuse == InitReuse /\ [][NextReuse]_vars

\* ---------------------------------------- claims on FilesMapper with a pool
\* the stems of the tasks dispatched by the last call, in dispatch order
DispatchedStems(r) == [k \in 1..Len(r.dispatched) |-> r.dispatched[k][2]]

\* C9: with a pool and synchronous=True, whenever the mapper call returns
\* normally exactly one encode task per stem was dispatched, each of them has
\* finished successfully and self._tasks is empty.
C9_SynchronousReturn ==
    (/\ op = "FilesMapper" /\ ret # None
     /\ ret[1].entry = "call" /\ ret[1].raised = "" /\ fmapper.synchronous)
        => /\ DispatchedStems(ret[1]) = [k \in 1..ret[1].nb_stems |-> k - 1]
           /\ \A k \in 1..Len(ret[1].dispatched) :
                 results[ret[1].dispatched[k]] = "ok"
           /\ fmapper.tasks = <<>>

C9_Witness ==
    /\ op = "FilesMapper" /\ ret # None
    /\ ret[1].entry = "call" /\ ret[1].raised = "" /\ fmapper.synchronous
    /\ ret[1].nb_stems = MaxPoolStems
    /\ args.calls = 2

\* C10: when join raises the failure of an encode task, every outstanding task
\* has been awaited, the failure is that of the first failed task, and no
\* task remains in self._tasks.
C10_RaisesAfterDrain ==
    (op = "FilesMapper" /\ ret # None /\ ret[1].failed # None)
        => /\ fmapper.tasks = <<>>
           /\ \A t \in DOMAIN results : results[t] # "pending"
           /\ \A t \in DOMAIN results :
                 results[t] = "failed" =>
                     (ret[1].failed[1][1] < t[1]
                      \/ (ret[1].failed[1][1] = t[1] /\ ret[1].failed[1][2] <= t[2]))

\* C15: join eventually returns control to the caller, by returning or by
\* raising, even when a worker never completes its task.
C15_JoinReturns ==
    (op = "FilesMapper" /\ frame.pc \in {"join", "get", "wait"})
        ~> (frame.pc = "idle")

\* join is stuck in task.get() on a task that is still pending
C15_StuckInGet ==
    /\ op = "FilesMapper"
    /\ frame.pc = "get"
    /\ results[frame.cur[1]] = "pending"

\* ------------------------------------------- direct calls of build_channel_map
\* the channel counts drawn for a direct call
MapChannels == 0..4

InitMap ==
    /\ op = "build_channel_map"
    /\ NoPool
    /\ args \in [nb_stems : 0..MaxStems, nb_channels : MapChannels,
                 stem_names : SeqsOf(Names, MaxStems)]
    /\ ret = None

\* a call with the default stem_names=[] has args.stem_names = <<>>
CallBuildChannelMap ==
    /\ op = "build_channel_map"
    /\ ret = None
    /\ ret' = Some(build_channel_map(args.nb_stems, args.nb_channels, args.stem_names))
    /\ UNCHANGED <<op, args, poolvars>>

NextMap == CallBuildChannelMap

SpecMap == InitMap /\ [][NextMap]_vars

\* C7 (as stated): a channels-per-stem value outside {1, 2} always fails with
\* NotImplementedError, for every stem count and every stem_names argument.
C7_AlwaysUnsupportedLayout ==
    (op = "build_channel_map" /\ ret # None /\ args.nb_channels \notin {1, 2})
        => ret[1].raised = "NotImplementedError"

\* C7 (amended): with a channels-per-stem value outside {1, 2} the call never
\* returns a channel map; it fails with NotImplementedError when the number of
\* stem names equals the stem count, and with the stem-name RuntimeError
\* (raised first) when it does not, as with the default stem_names=[] and a
\* positive stem count.
C7_UnsupportedLayout ==
    (op = "build_channel_map" /\ ret # None /\ args.nb_channels \notin {1, 2})
        => /\ ret[1].value = <<>>
           /\ ret[1].raised =
                IF Len(args.stem_names) = args.nb_stems
                THEN "NotImplementedError" ELSE "RuntimeError"

C7_Witness ==
    /\ op = "build_channel_map" /\ ret # None
    /\ args.nb_channels = 4 /\ args.nb_stems = 2 /\ Len(args.stem_names) = 2
    /\ ret[1].raised = "NotImplementedError"

\* ------------------------------------------------------- read.py: the probe
\* largest number of audio sub-streams of a container
MaxStreams == 2
\* largest number of sample frames the transcoder emits for one sub-stream
MaxFrames == 2

\* the native sample rates and channel counts of the sub-streams drawn
Rates == {44100, 48000}
StreamChannels == {1, 2}

\* ffprobe's 'streams' list of a container with nvideo leading non-audio
\* streams followed by the audio streams `audio`; 'index' is the position in
\* the container. frames is the number of sample frames the transcoder emits
\* when the stream is decoded.
ProbeStreams(nvideo, audio) ==
    [k \in 1..(nvideo + Len(audio)) |->
        IF k <= nvideo
        THEN [index |-> k - 1, codec_type |-> "video",
              channels |-> 0, sample_rate |-> 0, frames |-> 0]
        ELSE [index |-> k - 1, codec_type |-> "audio",
              channels |-> audio[k - nvideo].channels,
              sample_rate |-> audio[k - nvideo].sample_rate,
              frames |-> audio[k - nvideo].frames]]

RECURSIVE SelectAudio(_)
SelectAudio(streams) ==
    IF streams = <<>> THEN <<>>
    ELSE IF Head(streams).codec_type = "audio"
    THEN <<Head(streams)>> \o SelectAudio(Tail(streams))
    ELSE SelectAudio(Tail(streams))

\* Info.__init__: the probe result and its audio-typed entries, in order
Info(streams) == [info |-> streams, audio_streams |-> SelectAudio(streams)]

nb_audio_streams(metadata) == Len(metadata.audio_streams)

audio_stream_idx(metadata) ==
    [k \in 1..Len(metadata.audio_streams) |-> metadata.audio_streams[k].index]

\* self.audio_streams[idx] is a list subscript: IndexError outside the list
InAudioList(metadata, idx) == idx >= 0 /\ idx < Len(metadata.audio_streams)

sample_rate_of(metadata, idx) == metadata.audio_streams[idx + 1].sample_rate

channels_of(metadata, idx) == metadata.audio_streams[idx + 1].channels

\* ----------------------------------------------------- read.py: read_stems
\* Times are in microseconds, the resolution of the '%09.6f' seconds field.
StartFixThreshold == 100

\* _to_ffmpeg_time: hours, minutes and (micro)seconds of n
to_ffmpeg_time(n) ==
    LET m0 == n \div 60000000
        s  == n % 60000000
        h  == m0 \div 60
        m  == m0 % 60
    IN  <<h, m, s>>

\* read_stems without the fix of small start values
FixStartNever(start) == start

\* "if start: if start < 1e-4: start = None" (None and 0 are falsy)
FixStart(start) ==
    IF start # None /\ start[1] # 0
    THEN IF start[1] < StartFixThreshold THEN None ELSE start
    ELSE start

\* output_kwargs of one decode (read.py 107-113)
DecodeKwargs(stem, sample_rate, duration, start) ==
    [format |-> "f32le", ar |-> sample_rate,
     t   |-> IF duration # None THEN Some(to_ffmpeg_time(duration[1])) ELSE None,
     ss  |-> IF start # None THEN Some(to_ffmpeg_time(start[1])) ELSE None,
     map |-> <<0, stem>>]

\* What the transcoder writes to its output pipe for "-map 0:<stem>": the
\* samples of the container stream with that index, frame by frame, each
\* sample named <<stream index, frame, channel>>; nothing when the container
\* has no audio stream with that index.
DecodedBuffer(streams, stem) ==
    IF stem >= 0 /\ stem < Len(streams) /\ streams[stem + 1].codec_type = "audio"
    THEN LET st == streams[stem + 1]
         IN  [n \in 1..(st.frames * st.channels) |->
                 <<st.index, (n - 1) \div st.channels, (n - 1) % st.channels>>]
    ELSE <<>>

\* The decode loop (read.py 103-123) from position i of substreams on.
RECURSIVE DecodeLoop(_, _, _, _, _, _, _, _)
DecodeLoop(metadata, substreams, i, sample_rate, duration, start, stems, cmds) ==
    IF i > Len(substreams)
    THEN [raised |-> "", sample_rate |-> sample_rate, stems |-> stems, cmds |-> cmds]
    ELSE
    LET stem == substreams[i]
    IN  IF ~InAudioList(metadata, stem)
        THEN [raised |-> "IndexError", sample_rate |-> sample_rate,
              stems |-> stems, cmds |-> cmds]
        ELSE
        LET rate == IF sample_rate = None
                    THEN Some(sample_rate_of(metadata, stem)) ELSE sample_rate
            channels == channels_of(metadata, stem)
            cmd == DecodeKwargs(stem, rate[1], duration, start)
            buffer == [shape |-> <<Len(DecodedBuffer(metadata.info, stem))>>,
                       flat  |-> DecodedBuffer(metadata.info, stem)]
        IN  IF ~ReshapeFits(buffer, <<-1, channels>>)
            THEN [raised |-> "ValueError", sample_rate |-> rate,
                  stems |-> stems, cmds |-> Append(cmds, cmd)]
            ELSE DecodeLoop(metadata, substreams, i + 1, rate, duration, start,
                            Append(stems, Reshape(buffer, <<-1, channels>>)),
                            Append(cmds, cmd))

Min(S) == CHOOSE x \in S : \A y \in S : x <= y

SameShapes(stems) == \A k \in 1..Len(stems) : stems[k].shape = stems[1].shape

\* read.py 133: the channels of the stacked tensor are regrouped
Regroups(stacked, stems_from_channels) ==
    stems_from_channels # 0 /\ stacked.shape[3] > 1

\* read.py 134-137: whether the reshape to (.., .., -1, stems_from_channels)
\* is possible (numpy raises ValueError when it is not)
RegroupFits(stacked, stems_from_channels) ==
    LET t1 == Transpose(stacked, <<1, 0, 2>>)
    IN  ReshapeFits(t1, <<t1.shape[1], t1.shape[2], -1, stems_from_channels>>)

\* the regrouping with the axes of the last transpose exchanged, which splits
\* the channels of a group into stems of their own
StackStemsSplit(stems, stems_from_channels, always_3d) ==
    LET stacked == Stack(stems)
        t1 == Transpose(stacked, <<1, 0, 2>>)
        r1 == Reshape(t1, <<t1.shape[1], t1.shape[2], -1, stems_from_channels>>)
        regrouped == IF Regroups(stacked, stems_from_channels)
                     THEN LastAxisFirst(Transpose(r1, <<3, 0, 2, 1>>))
                     ELSE stacked
    IN  IF always_3d THEN regrouped ELSE Squeeze(regrouped)

\* read.py 132-142: stacking, channel regrouping and squeezing
StackStems(stems, stems_from_channels, always_3d) ==
    LET stacked == Stack(stems)
        t1 == Transpose(stacked, <<1, 0, 2>>)
        r1 == Reshape(t1, <<t1.shape[1], t1.shape[2], -1, stems_from_channels>>)
        regrouped == IF Regroups(stacked, stems_from_channels)
                     THEN LastAxisFirst(Transpose(r1, <<2, 0, 3, 1>>))
                     ELSE stacked
    IN  IF always_3d THEN regrouped ELSE Squeeze(regrouped)

ReadResult(raised, data, sample_rate, cmds, warned) ==
    [raised |-> raised, data |-> data, sample_rate |-> sample_rate,
     cmds |-> cmds, warned |-> warned]

\* read.py 125-142, after the decode loop
AlignAndStack(dec, a) ==
    LET lengths == {dec.stems[k].shape[1] : k \in 1..Len(dec.stems)}
        differ  == \E k \in 1..Len(dec.stems) :
                       dec.stems[k].shape[1] # dec.stems[1].shape[1]
        cut     == IF differ
                   THEN [k \in 1..Len(dec.stems) |-> HeadRows(dec.stems[k], Min(lengths))]
                   ELSE dec.stems
    IN  IF differ /\ warnings_warning # ""
        THEN ReadResult(warnings_warning, None, dec.sample_rate, dec.cmds, FALSE)
        ELSE IF ~SameShapes(cut)
        THEN ReadResult("ValueError", None, dec.sample_rate, dec.cmds, differ)
        ELSE IF /\ Regroups(Stack(cut), a.stems_from_channels)
                /\ ~RegroupFits(Stack(cut), a.stems_from_channels)
        THEN ReadResult("ValueError", None, dec.sample_rate, dec.cmds, differ)
        ELSE ReadResult("", Some(StackStems(cut, a.stems_from_channels, a.always_3d)),
                        dec.sample_rate, dec.cmds, differ)

\* read.py 76-95: the sub-streams to decode, or the error raised
Substreams(metadata, a) ==
    IF a.stems_from_channels # 0
    THEN IF nb_audio_streams(metadata) # 1
         THEN [raised |-> "Warning", list |-> <<>>]
         ELSE IF channels_of(metadata, 0) % a.stems_from_channels # 0
         THEN [raised |-> "Warning", list |-> <<>>]
         ELSE [raised |-> "", list |-> <<0>>]
    ELSE IF a.stem_id # None
    THEN [raised |-> "", list |-> <<a.stem_id[1]>>]
    ELSE [raised |-> "", list |-> audio_stream_idx(metadata)]

\* read_stems(filename, start, duration, stem_id, always_3d, sample_rate=...,
\* stems_from_channels=...) on a container whose probe gives `streams`
read_stems(streams, a) ==
    LET metadata == Info(streams)
        subs == Substreams(metadata, a)
        start == FixStart(a.start)
        dec == DecodeLoop(metadata, subs.list, 1, a.sample_rate, a.duration,
                          start, <<>>, <<>>)
    IN  IF nb_audio_streams(metadata) = 0
        THEN ReadResult("Warning", None, a.sample_rate, <<>>, FALSE)
        ELSE IF subs.raised # ""
        THEN ReadResult(subs.raised, None, a.sample_rate, <<>>, FALSE)
        ELSE IF dec.raised # ""
        THEN ReadResult(dec.raised, None, dec.sample_rate, dec.cmds, FALSE)
        ELSE AlignAndStack(dec, a)

\* ------------------------------------------------------ calls of read_stems
\* a sub-stream decodes to MaxFrames sample frames or to one fewer
AudioStream ==
    [channels : StreamChannels, sample_rate : Rates, frames : {MaxFrames - 1, MaxFrames}]

\* the start offsets drawn: absent, negative, zero, just below the threshold,
\* the threshold
Starts == {None, Some(-1), Some(0), Some(99), Some(100)}

ReadArgs ==
    [start : Starts,
     duration : {None, Some(61500000)},
     stem_id : {None, Some(0), Some(1)},
     always_3d : BOOLEAN,
     sample_rate : {None, Some(22050)},
     stems_from_channels : {0, 1, 2}]

InitRead ==
    /\ op = "read_stems"
    /\ NoPool
    /\ \E nvideo \in 0..1, audio \in SeqsOf(AudioStream, MaxStreams) :
          /\ Len(audio) >= 1
          /\ \E a \in ReadArgs :
                args = [streams |-> ProbeStreams(nvideo, audio), a |-> a,
                        nvideo |-> nvideo]
    /\ ret = None

CallReadStems ==
    /\ op = "read_stems"
    /\ ret = None
    /\ ret' = Some(read_stems(args.streams, args.a))
    /\ UNCHANGED <<op, args, poolvars>>

NextRead == CallReadStems

SpecRead == InitRead /\ [][NextRead]_vars

\* --------------------------------------------------- claims on write_stems
Written == op = "write_stems" /\ ret # None

EventsOf(kind) == SelectSeq(ret[1].events, LAMBDA e : e.ev = kind)

\* the processes of the transcoder the call spawned
Spawned == Len(EventsOf("run_async")) + Len(EventsOf("check_call"))

\* the files and directories the call created
FsWrites ==
    Len(EventsOf("mkdir")) + Len(EventsOf("tempfile.create")) + Spawned

\* C1: a call whose resolved data is not 3-dimensional fails with the shape
\* error (RuntimeError) and, before failing, invokes no mapper, spawns no
\* transcoder process and creates no file or directory.
C1_ShapeErrorFirst ==
    (Written /\ Len(args.shape) # 3)
        => /\ ret[1].raised = "RuntimeError"
           /\ Len(EventsOf("mapper.__call__")) = 0
           /\ Spawned = 0
           /\ FsWrites = 0

\* C1 with a transcoder of major version 3 or later, where the version
\* warning of lines 604-608 is not evaluated
C1_ShapeErrorFirstSupported ==
    (Written /\ Len(args.shape) # 3 /\ args.env.ffmpeg_major >= 3)
        => /\ ret[1].raised = "RuntimeError"
           /\ ret[1].events = <<>>

\* What the transcoder makes of the arguments built by build_channel_map:
\* the labels of the -map options, in order ...
RECURSIVE MapLabels(_)
MapLabels(cmd) ==
    IF Len(cmd) < 2 THEN <<>>
    ELSE IF cmd[1] = <<"-map">>
    THEN <<cmd[2][2]>> \o MapLabels(Tail(Tail(cmd)))
    ELSE MapLabels(Tail(cmd))

\* ... the filter graph ...
Graph(cmd) == (CHOOSE k \in 1..Len(cmd) : cmd[k][1] = "graph")

\* ... and the tags set on output audio stream k by "-metadata:s:a:k key=value"
Tags(cmd, k, key) ==
    {cmd[j + 1][2] : j \in {i \in 1..(Len(cmd) - 1) :
                               /\ cmd[i] = <<"-metadata:s:a:", k>>
                               /\ cmd[i + 1][1] = key}}

\* the branch of the filter graph labelled [a<label>]
Branches(cmd, label) ==
    LET g == cmd[Graph(cmd)][2]
    IN  {g[j] : j \in {i \in 1..Len(g) : g[i].out = label}}

StreamsCase ==
    /\ Written
    /\ args.mapper.kind = "StreamsMapper"
    /\ Len(args.shape) = 3
    /\ args.shape[3] \in {1, 2}
    /\ args.env.ffmpeg_major >= 3
    /\ Outcome(args.env, 1) # "pipe"
    /\ Len(ret[1].mapper.stem_names[1]) = args.shape[1]

\* the buffer written to the intermediate file and its declared channel count
Intermediate == [buffer |-> EventsOf("stdin.write")[1].buffer,
                 ac |-> EventsOf("run_async")[1].input.ac]

\* C3: the Interleaved-multistream write of an (N, S, C) tensor, C in {1, 2},
\* with N stem names makes a second transcoder invocation that defines exactly
\* N output sub-streams in stem order; sub-stream i has C channels, channel c
\* fed from the channel of the intermediate file holding channel c of stem i,
\* and its title, handler and handler_name tags are all stem_names[i].
C3_StreamRouting ==
    StreamsCase =>
        /\ Len(EventsOf("check_call")) = 1
        /\ LET cmd   == EventsOf("check_call")[1].cmd
               N     == args.shape[1]
               S     == args.shape[2]
               C     == args.shape[3]
               names == ret[1].mapper.stem_names[1]
           IN  /\ MapLabels(cmd) = [k \in 1..N |-> k - 1]
               /\ Intermediate.ac = N * C
               /\ \A i \in 0..(N - 1) :
                     /\ Cardinality(Branches(cmd, i)) = 1
                     /\ \A b \in Branches(cmd, i) :
                           /\ b.input = "a:0"
                           /\ Len(b.src) = C
                           /\ \A c \in 0..(C - 1), f \in 0..(S - 1) :
                                 /\ b.src[c + 1] < Intermediate.ac
                                 /\ Intermediate.buffer[f * Intermediate.ac + b.src[c + 1] + 1]
                                        = AsF4(<<i, f, c>>)
                     /\ Tags(cmd, i, "title=") = {names[i + 1]}
                     /\ Tags(cmd, i, "handler=") = {names[i + 1]}
                     /\ Tags(cmd, i, "handler_name=") = {names[i + 1]}
               /\ args.mapper.stem_names # None /\ ~args.data.is_dict
                     => names = args.mapper.stem_names[1]

C3_Witness ==
    /\ StreamsCase
    /\ args.shape = <<MaxStems, 2, 2>>
    /\ args.mapper.stem_names = Some(NameList(MaxStems))
    /\ ~args.data.is_dict
    /\ ret[1].raised = ""
    /\ Len(EventsOf("check_call")) = 1

\* the temporary files left by a sequence of events
RECURSIVE TempFiles(_)
TempFiles(evs) ==
    IF evs = <<>> THEN {}
    ELSE LET before == TempFiles(Front(evs))
             e == Last(evs)
         IN  IF e.ev = "tempfile.create" THEN before \cup {e.path}
             ELSE IF e.ev = "tempfile.delete" THEN before \ {e.path}
             ELSE before

\* a write_stems call that entered StreamsMapper.__call__
StreamsCalled ==
    /\ Written
    /\ args.mapper.kind = "StreamsMapper"
    /\ Len(EventsOf("mapper.__call__")) = 1

\* the positions of the events of one kind
Positions(kind) == {k \in 1..Len(ret[1].events) : ret[1].events[k].ev = kind}

\* C11: on every exit path of StreamsMapper.__call__ (success, failure of the
\* intermediate write, channel-map error, non-zero exit of the second
\* invocation) the temporary file was created once and no longer exists when
\* the call returns or raises, and the second invocation starts only after
\* the intermediate write has been waited for.
C11_TempfileRemoved ==
    StreamsCalled =>
        /\ Len(EventsOf("tempfile.create")) = 1
        /\ TempFiles(ret[1].events) = {}
        /\ \A j \in Positions("check_call") :
              /\ \E i \in Positions("wait") : i < j
              /\ \E i \in Positions("tempfile.create") : i < j
              /\ \A i \in Positions("tempfile.delete") : j < i

\* the second invocation exits with a non-zero status
C11_Witness ==
    /\ StreamsCalled
    /\ ret[1].raised = "RuntimeError"
    /\ \E j \in Positions("check_call") : ret[1].events[j].status = 1
    /\ TempFiles(ret[1].events) = {}

\* the other failing exit paths are reached as well: a failed intermediate
\* write and a channel-map error
C11_FailedWrite ==
    StreamsCalled /\ ret[1].raised = "Warning"

C11_ChannelMapError ==
    /\ StreamsCalled
    /\ ret[1].raised = "NotImplementedError"
    /\ Positions("check_call") = {}

\* a direct call of a NIStemsMapper with a 3-dimensional stereo tensor
NIStemsCase ==
    /\ op = "NIStemsMapper" /\ ret # None
    /\ Len(args.shape) = 3
    /\ args.shape[3] = 2

\* the positions of the invocations of one program through check_call
Invocations(program) ==
    {k \in Positions("check_call") : ret[1].events[k].cmd[1] = <<program>>}

\* C12: for a valid 3-D stereo tensor NIStemsMapper.__call__ first completes an
\* Interleaved-multistream write to the path and then invokes the
\* container-metadata tool exactly once on that path; the call fails with the
\* metadata-tool error exactly when that tool exits with a non-zero status.
C12_TagAfterWrite ==
    NIStemsCase =>
        /\ Cardinality(Invocations("ffmpeg")) = 1
        /\ Cardinality(Invocations("mp4box")) = 1
        /\ \A i \in Invocations("ffmpeg"), j \in Invocations("mp4box") :
              /\ i < j
              /\ ret[1].events[j].cmd[2] = <<"file", args.path>>
        /\ ret[1].raised = IF args.mp4box_status = 0 THEN "" ELSE "RuntimeError"

\* what the call does instead: it raises before anything is written or invoked
C12_NothingWritten ==
    NIStemsCase =>
        /\ ret[1].raised \in {"TypeError", "AttributeError"}
        /\ Spawned = 0
        /\ FsWrites = 0

\* a call of a sequence of calls sharing one mapper has ended
Rewritten == op = "write_stems*" /\ ret # None

\* the sample rates the call asked the transcoder to encode the output at
OutputRates ==
    {e.output.ar : e \in {ret[1].events[k] : k \in
        {i \in Positions("run_async") : ret[1].events[i].output.file # TempPath}}}
    \cup UNION {{ret[1].events[k].cmd[j][2] :
                   j \in {i \in 1..Len(ret[1].events[k].cmd) :
                             ret[1].events[k].cmd[i][1] = "rate"}}
                : k \in Positions("check_call")}

\* the call named its stems, in stem order, by the given names: the files of
\* a FilesMapper, the stream titles of a StreamsMapper
NamedBy(names) ==
    /\ ret[1].raised = ""
    /\ IF fmapper.kind = "FilesMapper"
       THEN [k \in 1..Len(EventsOf("run_async")) |->
                EventsOf("run_async")[k].output.file.stem] = names
       ELSE /\ Len(EventsOf("check_call")) = 1
            /\ MapLabels(EventsOf("check_call")[1].cmd) = [k \in 1..Len(names) |-> k - 1]
            /\ \A k \in 1..Len(names) :
                  Tags(EventsOf("check_call")[1].cmd, k - 1, "title=") = {names[k]}

\* C13: in every sequence of write calls that share one mapper, the default
\* mapper included, a call that supplies no stem names names its N stems
\* "Stem 0" .. "Stem N-1" and a call that configures no output sample rate
\* encodes at its own input sample rate.
C13_PerCallDefaults ==
    Rewritten =>
        /\ (~args.configured.names /\ fmapper.kind # "ChannelsMapper")
              => NamedBy(DefaultStemNames(args.shape[1]))
        /\ ~args.configured.rate => OutputRates = {args.sample_rate}

\* the first call on a mapper made without stem names and output sample rate
\* does resolve both from its own arguments
C13_FirstCallDefaults ==
    (Rewritten /\ args.calls = 1 /\ args.configured.mapper # DefaultMapper) =>
        /\ (~args.configured.names /\ fmapper.kind # "ChannelsMapper")
              => NamedBy(DefaultStemNames(args.shape[1]))
        /\ ~args.configured.rate => OutputRates = {args.sample_rate}

\* write_stems was given a name-keyed mapping and called the mapper
DictCase ==
    /\ Written
    /\ args.data.is_dict
    /\ Len(EventsOf("mapper.__call__")) = 1

\* C14: given a name-keyed mapping, write_stems passes the mapper a tensor
\* whose stem i is the i-th value in mapping order; a mapper other than a
\* ChannelsMapper then has the mapping's keys, in order, as its stem names,
\* whatever names it had before, and a ChannelsMapper has no stem names set.
C14_DictStems ==
    DictCase =>
        LET call == EventsOf("mapper.__call__")[1]
        IN  /\ call.data.shape[1] = Len(args.data.values)
            /\ \A i \in 1..Len(args.data.values) :
                  Slice(call.data, i - 1) = args.data.values[i]
            /\ call.stem_names = IF args.mapper.kind = "ChannelsMapper"
                                 THEN None ELSE Some(args.data.keys)

\* a mapping of several stems given with a mapper that had other names
C14_Witness ==
    /\ DictCase
    /\ Len(args.data.values) > 1
    /\ args.mapper.kind = "StreamsMapper"
    /\ args.mapper.stem_names # None
    /\ args.mapper.stem_names # Some(args.data.keys)
    /\ EventsOf("mapper.__call__")[1].stem_names = Some(args.data.keys)

ChannelsCase ==
    /\ Written
    /\ args.mapper.kind = "ChannelsMapper"
    /\ Len(args.shape) = 3
    /\ args.env.ffmpeg_major >= 3
    /\ args.env.fail_at = 0

\* C4: the Interleaved-multichannel write of an (N, S, C) tensor, N, S, C >= 1,
\* with a working transcoder makes exactly one transcoder invocation, declares
\* N*C input channels and passes a buffer whose sample f of channel i*C+c is
\* tensor[i, f, c] (as 32-bit float).
C4_ChannelsLayout ==
    ChannelsCase =>
        LET N == args.shape[1]
            S == args.shape[2]
            C == args.shape[3]
        IN  /\ Spawned = 1
            /\ Len(EventsOf("run_async")) = 1
            /\ EventsOf("run_async")[1].input.ac = N * C
            /\ Len(EventsOf("stdin.write")) = 1
            /\ \A i \in 0..(N - 1), f \in 0..(S - 1), c \in 0..(C - 1) :
                  EventsOf("stdin.write")[1].buffer[f * N * C + i * C + c + 1]
                      = AsF4(<<i, f, c>>)

\* C4 for tensors of at least two sample frames
C4_ChannelsLayoutTwoFrames ==
    (ChannelsCase /\ args.shape[2] >= 2) => C4_ChannelsLayout

\* ---------------------------------------------------- claims on write_audio
\* C8: write_audio does not return normally when the process it spawned exits
\* with a non-zero status or when the write to its input pipe fails; it raises
\* the transcode error (Warning) after reading the process's error stream.
C8_FailureRaises ==
    (/\ op = "write_audio" /\ ret # None
     /\ args.outcome \in {"exit", "pipe"}
     /\ Len(SelectSeq(ret[1].events, LAMBDA e : e.ev = "run_async")) = 1)
        => /\ ret[1].raised = "Warning"
           /\ Len(SelectSeq(ret[1].events, LAMBDA e : e.ev = "stderr.read")) = 1

\* ---------------------------------------------------- claims on read_stems
Returned == op = "read_stems" /\ ret # None

AudioOf(streams) == SelectAudio(streams)

MinFrames(streams) ==
    Min({AudioOf(streams)[k].frames : k \in 1..Len(AudioOf(streams))})

FramesDiffer(streams) ==
    \E k \in 1..Len(AudioOf(streams)) :
        AudioOf(streams)[k].frames # AudioOf(streams)[1].frames

SameChannels(streams) ==
    \A k \in 1..Len(AudioOf(streams)) :
        AudioOf(streams)[k].channels = AudioOf(streams)[1].channels

\* C2: truncation law. Reading all N audio sub-streams (stem_id=None,
\* always_3d=True) of a container of audio streams with one channel count
\* returns N stems, each cut to the smallest decoded sample count; when the
\* counts differ the call warns and does not abort.
C2_TruncationLaw ==
    (/\ Returned
     /\ args.a.stem_id = None /\ args.a.always_3d /\ args.a.stems_from_channels = 0
     /\ args.nvideo = 0 /\ SameChannels(args.streams))
        => /\ ret[1].raised = ""
           /\ ret[1].data # None
           /\ ret[1].data[1].shape =
                 <<Len(AudioOf(args.streams)), MinFrames(args.streams),
                   AudioOf(args.streams)[1].channels>>
           /\ ret[1].warned = FramesDiffer(args.streams)

\* the one-stereo-stream container read with stems_from_channels=2
StereoPairCase ==
    /\ Returned
    /\ args.nvideo = 0
    /\ Len(args.streams) = 1
    /\ args.streams[1].channels = 2
    /\ args.a.stems_from_channels = 2

\* C5 (as stated): a single stereo sub-stream read with stems_from_channels=2
\* gives two mono stems, stem k holding source channel k.
C5_SplitsByParity ==
    (StereoPairCase /\ args.a.always_3d)
        => /\ ret[1].raised = ""
           /\ ret[1].data # None
           /\ ret[1].data[1].shape = <<2, args.streams[1].frames, 1>>
           /\ \A k \in 0..1, f \in 0..(args.streams[1].frames - 1) :
                 At(ret[1].data[1], <<k, f, 0>>) = <<0, f, k>>

\* C5 (amended): a container whose only stream is one stereo sub-stream, read
\* with stems_from_channels=2, gives one stem (channels // stems_from_channels)
\* with 2 channels, channel c of frame f holding source channel c of frame f:
\* the samples are those decoded, in the decoded order. Without always_3d the
\* unit axes are squeezed away.
C5_KeepsStereoPair ==
    StereoPairCase
        => /\ ret[1].raised = ""
           /\ ret[1].data # None
           /\ ret[1].data[1].shape =
                 IF args.a.always_3d THEN <<1, args.streams[1].frames, 2>>
                 ELSE DropOnes(<<1, args.streams[1].frames, 2>>)
           /\ ret[1].data[1].flat = DecodedBuffer(args.streams, 0)
           /\ args.a.always_3d =>
                 \A f \in 0..(args.streams[1].frames - 1), c \in 0..1 :
                     At(ret[1].data[1], <<0, f, c>>) = <<0, f, c>>

C5_Witness ==
    /\ StereoPairCase /\ args.a.always_3d
    /\ args.streams[1].frames = 2
    /\ ret[1].raised = ""
    /\ ret[1].data[1].shape = <<1, 2, 2>>

\* the decode commands of the same call made with start=None
CmdsWithoutStart ==
    read_stems(args.streams, [args.a EXCEPT !.start = None]).cmds

NoSeek(cmds) == \A k \in 1..Len(cmds) : cmds[k].ss = None

\* C6 (as stated): every start below 1e-4 s, zero and negative values
\* included, builds the decode commands of start=None, without a seek option.
C6_SmallStartIsNone ==
    (Returned /\ args.a.start # None /\ args.a.start[1] < StartFixThreshold)
        => /\ ret[1].cmds = CmdsWithoutStart
           /\ NoSeek(ret[1].cmds)

\* C6 (amended): every non-zero start below 1e-4 s, negative values included,
\* builds the decode commands of start=None, without a seek option; start=0
\* is not replaced and every decode command carries the seek 0:00:00.000000,
\* being otherwise the command of start=None.
C6_SmallNonZeroStartIsNone ==
    (Returned /\ args.a.start # None /\ args.a.start[1] < StartFixThreshold)
        => IF args.a.start[1] # 0
           THEN ret[1].cmds = CmdsWithoutStart /\ NoSeek(ret[1].cmds)
           ELSE /\ Len(ret[1].cmds) = Len(CmdsWithoutStart)
                /\ \A k \in 1..Len(ret[1].cmds) :
                      ret[1].cmds[k] =
                          [CmdsWithoutStart[k] EXCEPT !.ss = Some(<<0, 0, 0>>)]

C6_Witness ==
    /\ Returned
    /\ args.a.start = Some(99)
    /\ Len(ret[1].cmds) = 2
    /\ NoSeek(ret[1].cmds)
    /\ ret[1].raised = ""


\* the container stream that "-map 0:<idx>" selects
Mapped(idx) == args.streams[idx + 1]

\* the call decoded at least one sub-stream, selected by stem_id or by default
Decoded == Returned /\ ret[1].cmds # <<>>

\* C16: without sample_rate, each sub-stream is decoded at its own native
\* rate: the rate option of the decode of stream k is the probed rate of
\* stream k; with sample_rate, every decode uses that rate.
C16_NativeRates ==
    Decoded =>
        \A k \in 1..Len(ret[1].cmds) :
            ret[1].cmds[k].ar =
                IF args.a.sample_rate = None
                THEN Mapped(ret[1].cmds[k].map[2]).sample_rate
                ELSE args.a.sample_rate[1]

\* what the loop does: every decode of a call uses one rate, the given one or
\* the rate looked up for the first sub-stream
C16_OneRate ==
    Decoded =>
        \A k \in 1..Len(ret[1].cmds) :
            ret[1].cmds[k].ar =
                IF args.a.sample_rate = None
                THEN sample_rate_of(Info(args.streams), ret[1].cmds[1].map[2])
                ELSE args.a.sample_rate[1]

\* the sub-streams the call selects (read.py 76-95)
Selected == Substreams(Info(args.streams), args.a).list

\* a call that reaches the decode loop
Selecting ==
    /\ Returned
    /\ nb_audio_streams(Info(args.streams)) > 0
    /\ Substreams(Info(args.streams), args.a).raised = ""

\* C17: for every sub-stream read_stems decodes, selected explicitly or by
\* the default list of probed stream indices, the channel count and native
\* sample rate looked up for the decode are those of the sub-stream the
\* transcoder is told to map, also when non-audio streams precede the audio
\* streams; for the default list each listed stream is looked up and decoded.
C17_SameStream ==
    Selecting =>
        /\ \A k \in 1..Len(ret[1].cmds) :
              LET stem == ret[1].cmds[k].map[2]
              IN  /\ Mapped(stem).codec_type = "audio"
                  /\ channels_of(Info(args.streams), stem) = Mapped(stem).channels
                  /\ sample_rate_of(Info(args.streams), stem) = Mapped(stem).sample_rate
        /\ (args.a.stem_id = None /\ args.a.stems_from_channels = 0)
              => ret[1].raised # "IndexError"

\* C17 for containers that hold audio streams only, where the position in the
\* audio-stream list is the container stream index
C17_SameStreamAudioOnly ==
    (Selecting /\ args.nvideo = 0) =>
        /\ \A k \in 1..Len(ret[1].cmds) :
              LET stem == ret[1].cmds[k].map[2]
              IN  /\ Mapped(stem).codec_type = "audio"
                  /\ channels_of(Info(args.streams), stem) = Mapped(stem).channels
                  /\ sample_rate_of(Info(args.streams), stem) = Mapped(stem).sample_rate
        /\ (args.a.stem_id = None /\ args.a.stems_from_channels = 0)
              => ret[1].raised # "IndexError"

====
